---- MODULE Spec2Model ----
(***************************************************************************)
(* Model of scripts/collect_rss.py: the RSS news collector.                *)
(*                                                                         *)
(* Python values are modelled as follows.                                  *)
(*   - a str that the code inspects character by character (title,         *)
(*     summary, keywords, error messages) is a sequence of one-character   *)
(*     strings; the empty str is << >>;                                    *)
(*   - a str that the code only compares or tests for emptiness (url,      *)
(*     feed name, category) is a TLA+ string; the empty str is "";         *)
(*   - a dict is a function from its keys; d.get(k, default) is Get;       *)
(*   - a feedparser entry is a function from the attributes it has;        *)
(*     getattr(entry, a, default) is Get;                                  *)
(*   - None and the values that may stand in its place are tagged records  *)
(*     (field "py");                                                       *)
(*   - a datetime is an integer number of hours on the UTC time line       *)
(*     (all datetimes of the program are timezone-aware, so comparison     *)
(*     is comparison of instants).                                         *)
(***************************************************************************)
EXTENDS Integers, Sequences, FiniteSets, TLC

VARIABLES
    config,       \* the dict load_config returned
    target_date,  \* main's target_date
    futures,      \* collect_articles: per submitted feed, the state of its future
    articles,     \* collect_articles: articles
    errors,       \* collect_articles: errors
    seen_urls,    \* collect_articles: seen_urls
    pc,           \* main's position: "collect", "returned", "written"
    output,       \* the lines of the output file, << >> before it is written
    order,        \* history: feed indices in the order the as_completed loop took them
    origin,       \* history: per accepted article, in acceptance order, the feed
                  \*          index and the entry index it was built from
    presort       \* history: articles as they were just before articles.sort

vars == <<config, target_date, futures, articles, errors, seen_urls, pc, output,
          order, origin, presort>>

----------------------------------------------------------------------------
(* Python helpers *)

None == [py |-> "None"]

\* d.get(k, default) / getattr(o, k, default)
Get(d, k, default) == IF k \in DOMAIN d THEN d[k] ELSE default

\* str.lower() on the characters the model uses
LowerChar(c) ==
    CASE c = "A" -> "a"
      [] c = "D" -> "d"
      [] c = "I" -> "i"
      [] OTHER -> c

lower(text) == [i \in 1..Len(text) |-> LowerChar(text[i])]

\* Python's `sub in text` on str
Contains(text, sub) ==
    \E i \in 0..(Len(text) - Len(sub)) :
        \A j \in 1..Len(sub) : text[i + j] = sub[j]

\* a str held where None may stand instead
Str(s) == [py |-> "str", s |-> s]

\* bool(x) for an optional str: None and "" are falsy
bool(x) == x.py = "str" /\ Len(x.s) > 0

Min(a, b) == IF a <= b THEN a ELSE b

\* s[:n]
Prefix(s, n) == SubSeq(s, 1, Min(Len(s), n))

\* timezone(timedelta(hours=9))
JST == 9

----------------------------------------------------------------------------
(* parse_entry_date: the first of published_parsed, updated_parsed that is   *)
(* present and converts; a struct_time is [py |-> "struct_time", valid, t],  *)
(* valid = FALSE when the datetime constructor raises ValueError/TypeError   *)

Converts(parsed) == parsed.py = "struct_time" /\ parsed.valid

\* parse_entry_date giving up when published_parsed does not convert
parse_entry_date_NoFallback(entry) ==
    LET published_parsed == Get(entry, "published_parsed", None)
        updated_parsed   == Get(entry, "updated_parsed", None)
    IN  IF published_parsed.py = "struct_time"
        THEN IF published_parsed.valid
             THEN [py |-> "datetime", t |-> published_parsed.t]
             ELSE None
        ELSE IF Converts(updated_parsed)
        THEN [py |-> "datetime", t |-> updated_parsed.t]
        ELSE None

parse_entry_date(entry) ==
    LET published_parsed == Get(entry, "published_parsed", None)
        updated_parsed   == Get(entry, "updated_parsed", None)
    IN  IF Converts(published_parsed)
        THEN [py |-> "datetime", t |-> published_parsed.t]
        ELSE IF Converts(updated_parsed)
        THEN [py |-> "datetime", t |-> updated_parsed.t]
        ELSE None

\* matches_keywords taking an empty keyword list to match everything
matches_keywords_EmptyMatchesAll(text, kws) ==
    \/ Len(kws) = 0
    \/ \E k \in 1..Len(kws) : Contains(lower(text), lower(kws[k]))

\* matches_exclude_keywords without kw.lower()
matches_exclude_keywords_CaseSensitive(text, kws) ==
    \E k \in 1..Len(kws) : Contains(lower(text), kws[k])

\* any(kw.lower() in lower_text for kw in keywords)
matches_keywords(text, keywords) ==
    LET lower_text == lower(text)
    IN  \E k \in 1..Len(keywords) : Contains(lower_text, lower(keywords[k]))

matches_exclude_keywords(text, exclude_keywords) ==
    IF Len(exclude_keywords) = 0
    THEN FALSE
    ELSE LET lower_text == lower(text)
         IN  \E k \in 1..Len(exclude_keywords) :
                 Contains(lower_text, lower(exclude_keywords[k]))

----------------------------------------------------------------------------
(* clean_text *)

\* index of the first ">" of s, 0 when there is none
FirstGt(s) ==
    IF \E j \in 1..Len(s) : s[j] = ">"
    THEN CHOOSE j \in 1..Len(s) : s[j] = ">" /\ \A k \in 1..(j - 1) : s[k] # ">"
    ELSE 0

\* re.sub(r"<[^>]+>", "", text)
RECURSIVE StripTags(_)
StripTags(s) ==
    IF s = << >> THEN << >>
    ELSE IF s[1] = "<" /\ FirstGt(s) >= 3
         THEN StripTags(SubSeq(s, FirstGt(s) + 1, Len(s)))
         ELSE <<s[1]>> \o StripTags(Tail(s))

IsSpace(c) == c \in {" ", "\n", "\t"}

\* re.sub(r"\s+", " ", text)
RECURSIVE CollapseSpace(_)
CollapseSpace(s) ==
    IF s = << >> THEN << >>
    ELSE IF IsSpace(s[1])
         THEN IF Len(s) >= 2 /\ IsSpace(s[2])
              THEN CollapseSpace(Tail(s))
              ELSE <<" ">> \o CollapseSpace(Tail(s))
         ELSE <<s[1]>> \o CollapseSpace(Tail(s))

\* str.strip()
RECURSIVE strip(_)
strip(s) ==
    IF s = << >> THEN << >>
    ELSE IF IsSpace(s[1]) THEN strip(Tail(s))
    ELSE IF IsSpace(s[Len(s)]) THEN strip(SubSeq(s, 1, Len(s) - 1))
    ELSE s

clean_text(text) == strip(CollapseSpace(StripTags(text)))

----------------------------------------------------------------------------
(* fetch_single_feed.  `parsed` is what feedparser.parse(url, agent=...) did: *)
(*   [raises |-> TRUE, e |-> str(e)]                      it raised e         *)
(*   [raises |-> FALSE, bozo, entries, bozo_exception]    it returned         *)
(* The result is the tuple (name, entries, error).                           *)

ParseErrorPrefix == <<"Parse error: ">>

fetch_single_feed(feed_config, parsed) ==
    LET name == feed_config["name"]
    IN  IF parsed.raises
        THEN <<name, << >>, Str(parsed.e)>>
        ELSE IF parsed.bozo /\ Len(parsed.entries) = 0
        THEN <<name, << >>, Str(ParseErrorPrefix \o parsed.bozo_exception)>>
        ELSE <<name, parsed.entries, None>>

----------------------------------------------------------------------------
(* collect_articles: configuration and the per-entry filter *)

feeds            == Get(config, "feeds", << >>)
keywords         == Get(config, "keywords", << >>)
exclude_keywords == Get(config, "exclude_keywords", << >>)
fetch_hours      == Get(config, "fetch_hours", 48)
cutoff_time      == target_date - fetch_hours

\* the literal written when the publish time is unknown
Unknown == [py |-> "str", literal |-> "unknown"]

\* pub_date.astimezone(JST).strftime("%Y-%m-%d %H:%M") if pub_date else the literal
published(pub_date) ==
    IF pub_date.py = "datetime"
    THEN [py |-> "str", strftime |-> pub_date.t + JST]
    ELSE Unknown

\* Article folding a category outside category_order into "other"
Article_ClosedCategory(entry, name, feed_config) ==
    [title     |-> clean_text(Get(entry, "title", << >>)),
     url       |-> Get(entry, "link", ""),
     source    |-> name,
     category  |-> IF Get(feed_config, "category", "other")
                         \in {"official", "domestic", "international", "tech",
                              "reddit", "industry", "other"}
                   THEN Get(feed_config, "category", "other")
                   ELSE "other",
     language  |-> Get(feed_config, "language", "en"),
     published |-> published(parse_entry_date(entry)),
     summary   |-> Prefix(clean_text(Get(entry, "summary", << >>)), 200)]

\* the dict appended to articles
Article(entry, name, feed_config) ==
    [title     |-> clean_text(Get(entry, "title", << >>)),
     url       |-> Get(entry, "link", ""),
     source    |-> name,
     category  |-> Get(feed_config, "category", "other"),
     language  |-> Get(feed_config, "language", "en"),
     published |-> published(parse_entry_date(entry)),
     summary   |-> Prefix(clean_text(Get(entry, "summary", << >>)), 200)]

\* ProcessEntry without the seen_urls test
ProcessEntry_NoDedup(entry, name, feed_config, st, at) ==
    LET url           == Get(entry, "link", "")
        pub_date      == parse_entry_date(entry)
        combined_text == Get(entry, "title", << >>) \o <<" ">>
                             \o Get(entry, "summary", << >>)
    IN  IF url = "" THEN st
        ELSE IF pub_date.py = "datetime" /\ pub_date.t < cutoff_time THEN st
        ELSE IF matches_exclude_keywords(combined_text, exclude_keywords) THEN st
        ELSE IF ~matches_keywords(combined_text, keywords) THEN st
        ELSE [articles  |-> Append(st.articles, Article(entry, name, feed_config)),
              seen_urls |-> st.seen_urls \cup {url},
              origin    |-> Append(st.origin, at)]

\* ProcessEntry marking the url seen before the recency and keyword checks
ProcessEntry_SeenEarly(entry, name, feed_config, st, at) ==
    LET url           == Get(entry, "link", "")
        pub_date      == parse_entry_date(entry)
        combined_text == Get(entry, "title", << >>) \o <<" ">>
                             \o Get(entry, "summary", << >>)
        marked        == [st EXCEPT !.seen_urls = st.seen_urls \cup {url}]
    IN  IF url = "" \/ url \in st.seen_urls THEN st
        ELSE IF pub_date.py = "datetime" /\ pub_date.t < cutoff_time THEN marked
        ELSE IF matches_exclude_keywords(combined_text, exclude_keywords) THEN marked
        ELSE IF ~matches_keywords(combined_text, keywords) THEN marked
        ELSE [articles  |-> Append(st.articles, Article(entry, name, feed_config)),
              seen_urls |-> st.seen_urls \cup {url},
              origin    |-> Append(st.origin, at)]

\* one iteration of `for entry in entries`; st = [articles, seen_urls, origin],
\* `at` = the feed index and entry index of `entry` (recorded in origin only)
ProcessEntry(entry, name, feed_config, st, at) ==
    LET url           == Get(entry, "link", "")
        pub_date      == parse_entry_date(entry)
        title         == Get(entry, "title", << >>)
        summary       == Get(entry, "summary", << >>)
        combined_text == title \o <<" ">> \o summary
    IN  IF url = "" \/ url \in st.seen_urls THEN st
        ELSE IF pub_date.py = "datetime" /\ pub_date.t < cutoff_time THEN st
        ELSE IF matches_exclude_keywords(combined_text, exclude_keywords) THEN st
        ELSE IF ~matches_keywords(combined_text, keywords) THEN st
        ELSE [articles  |-> Append(st.articles, Article(entry, name, feed_config)),
              seen_urls |-> st.seen_urls \cup {url},
              origin    |-> Append(st.origin, at)]

\* `for entry in entries` from entry k on, for the result of feed i
RECURSIVE ProcessEntries(_, _, _, _, _, _)
ProcessEntries(entries, k, name, feed_config, st, i) ==
    IF k > Len(entries) THEN st
    ELSE ProcessEntries(entries, k + 1, name, feed_config,
                        ProcessEntry(entries[k], name, feed_config, st,
                                     [feed |-> i, entry |-> k]), i)

----------------------------------------------------------------------------
(* the category-priority sort *)

category_order ==
    [official |-> 0, domestic |-> 1, international |-> 2, tech |-> 3,
     reddit |-> 4, industry |-> 5, other |-> 6]

\* key=lambda a: category_order.get(a["category"], 99)
SortKey(a) == Get(category_order, a["category"], 99)

\* a sort placing each element before the placed elements of equal key
RECURSIVE list_sort_Unstable(_)
list_sort_Unstable(s) ==
    IF s = << >> THEN << >>
    ELSE LET placed == list_sort_Unstable(SubSeq(s, 1, Len(s) - 1))
             x      == s[Len(s)]
             k      == Cardinality({i \in 1..Len(placed) : SortKey(placed[i]) < SortKey(x)})
         IN  SubSeq(placed, 1, k) \o <<x>> \o SubSeq(placed, k + 1, Len(placed))

\* list.sort(key=...): stable; each element goes behind the elements already
\* placed whose key is not greater
RECURSIVE list_sort(_)
list_sort(s) ==
    IF s = << >> THEN << >>
    ELSE LET placed == list_sort(SubSeq(s, 1, Len(s) - 1))
             x      == s[Len(s)]
             k      == Cardinality({i \in 1..Len(placed) : SortKey(placed[i]) <= SortKey(x)})
         IN  SubSeq(placed, 1, k) \o <<x>> \o SubSeq(placed, k + 1, Len(placed))

----------------------------------------------------------------------------
(* generate_markdown: the digest is a sequence of lines, each a record      *)
(* naming the line's kind and the values formatted into it                   *)

labels ==
    [official |-> "AI companies (official)", domestic |-> "domestic media",
     international |-> "international media", tech |-> "tech community",
     reddit |-> "Reddit", industry |-> "industry", other |-> "others"]

category_label(category) == Get(labels, category, category)

Blank == [kind |-> "blank"]

\* the fixed line written when there is no article
NoArticlesLine == [kind |-> "no_articles"]

\* the body of `for article in articles`, current_category carried along
RECURSIVE ArticleLines(_, _)
ArticleLines(arts, current_category) ==
    IF arts = << >> THEN << >>
    ELSE LET article == Head(arts)
             header  == IF article["category"] # current_category
                        THEN <<[kind |-> "section",
                                label |-> category_label(article["category"])], Blank>>
                        ELSE << >>
             item    == <<[kind |-> "item", title |-> article["title"],
                           source |-> article["source"], url |-> article["url"]]>>
             summary == IF Len(article["summary"]) > 0
                        THEN <<[kind |-> "summary",
                                text |-> Prefix(article["summary"], 150)]>>
                        ELSE << >>
         IN  header \o item \o summary \o <<Blank>>
                 \o ArticleLines(Tail(arts), article["category"])

ErrorLines(errs) ==
    [i \in 1..Len(errs) |->
        [kind |-> "error", name |-> errs[i]["name"], error |-> errs[i]["error"]]]

\* the collection-time line holds the wall clock, which is not modelled
generate_markdown(arts, errs, date) ==
    <<[kind |-> "title", date |-> date], Blank,
      [kind |-> "counts", articles |-> Len(arts), errors |-> Len(errs)],
      [kind |-> "collected_at"], Blank>>
    \o (IF Len(arts) = 0 THEN <<NoArticlesLine, Blank>> ELSE ArticleLines(arts, ""))
    \o (IF Len(errs) > 0
        THEN <<[kind |-> "rule"], Blank, [kind |-> "error_section"], Blank>>
                 \o ErrorLines(errs) \o <<Blank>>
        ELSE << >>)

----------------------------------------------------------------------------
(* Bounds and the inputs drawn within them *)

\* the longest entry list a fetch returns
MaxEntries == 2

SeqsUpTo(S, n) == UNION {[1..k -> S] : k \in 0..n}

\* what feedparser.parse may do, given the entries a feed may hold: raise,
\* return a well-formed feed, or return a malformed one (bozo) from which no
\* entry or one entry was recovered
ParseOutcomes(entryPool) ==
    {[raises |-> TRUE, e |-> e] : e \in {<< >>, <<"timed out">>}}
    \cup {[raises |-> FALSE, bozo |-> FALSE, entries |-> es, bozo_exception |-> << >>] :
             es \in SeqsUpTo(entryPool, MaxEntries)}
    \cup {[raises |-> FALSE, bozo |-> TRUE, entries |-> es,
           bozo_exception |-> <<"not well-formed">>] : es \in SeqsUpTo(entryPool, 1)}

\* a future that has not completed: nothing parsed, no result tuple
Pending == [state |-> "pending", parsed |-> None, result |-> << >>]

\* the state collect_articles starts in, for a given configuration and date
Start(cfg, date) ==
    /\ config = cfg
    /\ target_date = date
    /\ futures = [i \in 1..Len(Get(cfg, "feeds", << >>)) |-> Pending]
    /\ articles = << >>
    /\ errors = << >>
    /\ seen_urls = {}
    /\ pc = "collect"
    /\ output = << >>
    /\ order = << >>
    /\ origin = << >>
    /\ presort = << >>

----------------------------------------------------------------------------
(* Actions *)

\* a pool worker runs fetch_single_feed for feed i and its future completes
\* (every feed is submitted at once; the pool's max_workers = 10 exceeds the
\* number of feeds of every configuration below, so no fetch waits for a worker)
Fetch(i, outcomes) ==
    /\ pc = "collect"
    /\ futures[i].state = "pending"
    /\ \E parsed \in outcomes :
         futures' = [futures EXCEPT ![i] =
                        [state |-> "done", parsed |-> parsed,
                         result |-> fetch_single_feed(feeds[i], parsed)]]
    /\ UNCHANGED <<config, target_date, articles, errors, seen_urls, pc, output,
                   order, origin, presort>>

\* one iteration of `for future in as_completed(futures)`
ProcessResult(i) ==
    /\ pc = "collect"
    /\ futures[i].state = "done"
    /\ LET feed_config == feeds[i]
           name        == futures[i].result[1]
           entries     == futures[i].result[2]
           error       == futures[i].result[3]
       IN  IF bool(error)
           THEN /\ errors' = Append(errors, [name |-> name, error |-> error.s])
                /\ UNCHANGED <<articles, seen_urls, origin>>
           ELSE LET st == ProcessEntries(entries, 1, name, feed_config,
                                         [articles |-> articles, seen_urls |-> seen_urls,
                                          origin |-> origin], i)
                IN  /\ articles' = st.articles
                    /\ seen_urls' = st.seen_urls
                    /\ origin' = st.origin
                    /\ UNCHANGED errors
    /\ futures' = [futures EXCEPT ![i].state = "consumed"]
    /\ order' = Append(order, i)
    /\ UNCHANGED <<config, target_date, pc, output, presort>>

\* as_completed is exhausted: sort and return (articles, errors) to main
SortAndReturn ==
    /\ pc = "collect"
    /\ \A i \in DOMAIN futures : futures[i].state = "consumed"
    /\ presort' = articles
    /\ articles' = list_sort(articles)
    /\ pc' = "returned"
    /\ UNCHANGED <<config, target_date, futures, errors, seen_urls, output, order,
                   origin>>

\* main: generate_markdown and write the output file
WriteDigest ==
    /\ pc = "returned"
    /\ output' = generate_markdown(articles, errors, target_date)
    /\ pc' = "written"
    /\ UNCHANGED <<config, target_date, futures, articles, errors, seen_urls,
                   order, origin, presort>>

----------------------------------------------------------------------------
(* Spec: two feeds whose entries vary in link and in keyword match *)

FeedA == [name |-> "A", url |-> "http://a/rss", category |-> "tech", language |-> "ja"]
FeedB == [name |-> "B", url |-> "http://b/rss"]

TitleAI  == <<"A", "I">>
TitleCat == <<"c", "a", "t">>
KwAI     == <<"a", "i">>

LinkEntries ==
    {[link |-> l, title |-> t] : l \in {"u1", "u2"}, t \in {TitleAI, TitleCat}}
    \cup {[link |-> "", title |-> TitleAI]}

Init ==
    Start([name |-> "ai-news", feeds |-> <<FeedA, FeedB>>, keywords |-> <<KwAI>>], 50)

Next ==
    \/ \E i \in DOMAIN futures : Fetch(i, ParseOutcomes(LinkEntries))
    \/ \E i \in DOMAIN futures : ProcessResult(i)
    \/ SortAndReturn
    \/ WriteDigest

Spec == Init /\ [][Next]_vars

----------------------------------------------------------------------------
(* SpecDate: one feed whose entries vary in published_parsed, updated_parsed *)
(* and link; the cutoff is hour 2 (fetch_hours absent) or hour 3             *)

Time(t) == [py |-> "struct_time", valid |-> TRUE, t |-> t]
BadTime == [py |-> "struct_time", valid |-> FALSE, t |-> 0]

WithAttrs(base, name, values) == {base @@ (name :> v) : v \in values}

DateEntries ==
    LET links     == {[link |-> l, title |-> TitleAI] : l \in {"u1", "u2"}}
        dated     == links \cup UNION {WithAttrs(e, "published_parsed",
                                                 {BadTime, Time(1), Time(2)}) : e \in links}
    IN  dated \cup UNION {WithAttrs(e, "updated_parsed",
                                        {BadTime, Time(1), Time(3)}) : e \in dated}

InitDate ==
    \E cfg \in {[name |-> "ai-news", feeds |-> <<FeedA>>, keywords |-> <<KwAI>>],
                [name |-> "ai-news", feeds |-> <<FeedA>>, keywords |-> <<KwAI>>,
                 fetch_hours |-> 47]} :
        Start(cfg, 50)

NextDate ==
    \/ \E i \in DOMAIN futures : Fetch(i, ParseOutcomes(DateEntries))
    \/ \E i \in DOMAIN futures : ProcessResult(i)
    \/ SortAndReturn
    \/ WriteDigest

SpecDate == InitDate /\ [][NextDate]_vars

----------------------------------------------------------------------------
(* SpecKw: one feed whose entries vary in title and summary, under varying  *)
(* include and exclude keyword lists                                         *)

KwAD  == <<"A", "D">>
KwA_D == <<"a", " ", "d">>

KwEntries ==
    LET titles == {[link |-> l, title |-> t] :
                      l \in {"u1", "u2"},
                      t \in {TitleAI, <<"a">>, <<"A", "I", " ", "a", "D">>}}
    IN  titles \cup UNION {WithAttrs(e, "summary", {<<"d">>, <<"a", "i">>}) : e \in titles}

KwConfigs ==
    LET base == {[name |-> "ai-news", feeds |-> <<FeedA>>]}
        inc  == base \cup UNION {WithAttrs(c, "keywords", {<< >>, <<KwAI>>}) : c \in base}
    IN  inc \cup UNION {WithAttrs(c, "exclude_keywords", {<< >>, <<KwAD, KwA_D>>}) :
                           c \in inc}

InitKw == \E cfg \in KwConfigs : Start(cfg, 50)

NextKw ==
    \/ \E i \in DOMAIN futures : Fetch(i, ParseOutcomes(KwEntries))
    \/ \E i \in DOMAIN futures : ProcessResult(i)
    \/ SortAndReturn
    \/ WriteDigest

SpecKw == InitKw /\ [][NextKw]_vars

----------------------------------------------------------------------------
(* SpecCat: three feeds with varying configured categories, each fetch       *)
(* failing or returning one matching entry                                   *)

Categories == {"official", "other", "foo", "bar"}

CatFeeds(base) == {base} \cup WithAttrs(base, "category", Categories)

CatOutcomes ==
    {[raises |-> TRUE, e |-> <<"timed out">>]}
    \cup {[raises |-> FALSE, bozo |-> FALSE, bozo_exception |-> << >>,
           entries |-> <<[link |-> l, title |-> TitleAI]>>] : l \in {"u1", "u2", "u3"}}

InitCat ==
    \E a \in CatFeeds([name |-> "A", url |-> "http://a/rss"]),
       b \in CatFeeds([name |-> "B", url |-> "http://b/rss"]),
       c \in CatFeeds([name |-> "C", url |-> "http://c/rss"]) :
        Start([name |-> "ai-news", feeds |-> <<a, b, c>>, keywords |-> <<KwAI>>], 50)

NextCat ==
    \/ \E i \in DOMAIN futures : Fetch(i, CatOutcomes)
    \/ \E i \in DOMAIN futures : ProcessResult(i)
    \/ SortAndReturn
    \/ WriteDigest

SpecCat == InitCat /\ [][NextCat]_vars

\* every fetch terminates and the main thread keeps running
FairSpec == Spec /\ WF_vars(Next)

----------------------------------------------------------------------------
(* Vocabulary of the properties, stated on the fetched feeds themselves *)

Consumed == {i \in DOMAIN futures : futures[i].state = "consumed"}

\* the fetch of feed i raised, or reported malformed input with zero entries
FetchFailed(i) ==
    /\ futures[i].state # "pending"
    /\ IF futures[i].parsed.raises THEN TRUE
       ELSE futures[i].parsed.bozo /\ Len(futures[i].parsed.entries) = 0

\* the entries of feed i, when its fetch has completed without failing
EntriesOf(i) ==
    IF futures[i].state = "pending" \/ FetchFailed(i) THEN << >>
    ELSE futures[i].parsed.entries

\* positions (feed, entry) of the entries of the processed feeds
Positions ==
    UNION {{[feed |-> i, entry |-> k] : k \in 1..Len(EntriesOf(i))} : i \in Consumed}

EntryAt(at) == EntriesOf(at.feed)[at.entry]

LinkOf(e) == IF "link" \in DOMAIN e THEN e["link"] ELSE ""

CombinedText(e) ==
    (IF "title" \in DOMAIN e THEN e["title"] ELSE << >>) \o <<" ">>
        \o (IF "summary" \in DOMAIN e THEN e["summary"] ELSE << >>)

ContainsIgnoringCase(text, kw) ==
    \E i \in 0..(Len(text) - Len(kw)) :
        \A j \in 1..Len(kw) : LowerChar(text[i + j]) = LowerChar(kw[j])

Excluded(e) ==
    \E k \in 1..Len(exclude_keywords) :
        ContainsIgnoringCase(CombinedText(e), exclude_keywords[k])

Included(e) ==
    \E k \in 1..Len(keywords) : ContainsIgnoringCase(CombinedText(e), keywords[k])

\* the publish timestamp: published_parsed, else updated_parsed; -1 when unknown
Usable(e, attr) == attr \in DOMAIN e /\ e[attr].py = "struct_time" /\ e[attr].valid

Timestamp(e) ==
    IF Usable(e, "published_parsed") THEN e["published_parsed"].t
    ELSE IF Usable(e, "updated_parsed") THEN e["updated_parsed"].t
    ELSE -1

TooOld(e) == Timestamp(e) # -1 /\ Timestamp(e) < cutoff_time

Passes(e) == ~TooOld(e) /\ ~Excluded(e) /\ Included(e)

\* at1 is taken by the loops before at2
Before(at1, at2) ==
    \/ at1.feed = at2.feed /\ at1.entry < at2.entry
    \/ \E a, b \in 1..Len(order) :
          a < b /\ order[a] = at1.feed /\ order[b] = at2.feed

Urls(arts) == {arts[k]["url"] : k \in 1..Len(arts)}

\* the articles in acceptance order
Accepted == IF pc = "collect" THEN articles ELSE presort

----------------------------------------------------------------------------
(* C1 *)

\* C1: no two articles of the list share a url, after each processed fetch
\* result and in the list returned
C1_UniqueUrls ==
    \A i, j \in 1..Len(articles) : i # j => articles[i]["url"] # articles[j]["url"]

\* the same url is carried by two passing entries of one processed feed and by
\* a passing entry of another
C1_Witness ==
    /\ pc = "returned"
    /\ \E at1, at2, at3 \in Positions :
          /\ at1.feed = at2.feed /\ at1.entry # at2.entry /\ at3.feed # at1.feed
          /\ \A at \in {at1, at2, at3} :
                LinkOf(EntryAt(at)) = "u1" /\ Passes(EntryAt(at))

----------------------------------------------------------------------------
(* C9 *)

\* C9: whatever the completion order, a url is among the articles if and only
\* if some entry carrying it, in a processed feed whose fetch did not fail,
\* passes the recency and keyword checks
C9_UrlsIndependentOfOrder ==
    Urls(articles) =
        {LinkOf(EntryAt(at)) : at \in {p \in Positions : Passes(EntryAt(p))}} \ {""}

\* an entry rejected by the keywords was taken before an accepted entry with
\* the same url, in another feed
C9_Witness ==
    /\ pc = "returned"
    /\ \E k \in 1..Len(origin) : \E at \in Positions :
          /\ at.feed # origin[k].feed
          /\ Before(at, origin[k])
          /\ LinkOf(EntryAt(at)) = LinkOf(EntryAt(origin[k]))
          /\ ~Passes(EntryAt(at))

----------------------------------------------------------------------------
(* C2 *)

\* the articles collected when the results of the feeds of `ord` are
\* processed in that order
RECURSIVE Replay(_, _)
Replay(ord, st) ==
    IF ord = << >> THEN st
    ELSE LET i == Head(ord)
             r == futures[i].result
         IN  Replay(Tail(ord),
                    IF bool(r[3]) THEN st
                    ELSE ProcessEntries(r[2], 1, r[1], feeds[i], st, i))

Without(ord, i) == SelectSeq(ord, LAMBDA j : j # i)

\* C2: a processed feed whose fetch raised (whatever the message) or reported
\* malformed input with zero entries has exactly one FetchError with its name,
\* is the source of no article, and leaves the articles of the other feeds as
\* they are without it
C2_FailedFeedIsolated ==
    \A i \in Consumed :
        FetchFailed(i) =>
            /\ Cardinality({k \in 1..Len(errors) :
                               errors[k]["name"] = feeds[i]["name"]}) = 1
            /\ \A k \in 1..Len(articles) : articles[k]["source"] # feeds[i]["name"]
            /\ Accepted = Replay(Without(order, i),
                                 [articles |-> << >>, seen_urls |-> {},
                                  origin |-> << >>]).articles

\* C2, for the failures whose message is not empty: the same
C2_ReportedWhenMessageNonEmpty ==
    \A i \in Consumed :
        FetchFailed(i) /\ bool(futures[i].result[3]) =>
            /\ Cardinality({k \in 1..Len(errors) :
                               errors[k]["name"] = feeds[i]["name"]}) = 1
            /\ \A k \in 1..Len(articles) : articles[k]["source"] # feeds[i]["name"]
            /\ Accepted = Replay(Without(order, i),
                                 [articles |-> << >>, seen_urls |-> {},
                                  origin |-> << >>]).articles

----------------------------------------------------------------------------
(* C7 *)

\* C7: once the digest is written every feed has been processed exactly once,
\* as one FetchError or as a processed success, and when every fetch failed
\* the article list is empty and the error list holds one entry per feed
C7_DigestAfterAllFeeds ==
    pc = "written" =>
        /\ Len(order) = Len(feeds)
        /\ \A i \in DOMAIN futures :
              Cardinality({k \in 1..Len(order) : order[k] = i}) = 1
        /\ (\A i \in DOMAIN futures : FetchFailed(i)) =>
              Len(articles) = 0 /\ Len(errors) = Len(feeds)

\* C7, the part about order alone: collect_articles returns only after every
\* feed's result has been processed exactly once
C7_EachFeedOnce ==
    pc # "collect" =>
        /\ Len(order) = Len(feeds)
        /\ \A i \in DOMAIN futures :
              Cardinality({k \in 1..Len(order) : order[k] = i}) = 1

\* C7, the liveness part: when every fetch terminates the digest is written
C7_EventuallyWritten == <>(pc = "written")

----------------------------------------------------------------------------
(* C3, C4, C5 *)

\* the entry at `at` was reached with its link not yet in seen_urls
Unseen(at) ==
    ~\E k \in 1..Len(origin) :
        Before(origin[k], at) /\ LinkOf(EntryAt(origin[k])) = LinkOf(EntryAt(at))

WasAccepted(at) == \E k \in 1..Len(origin) : origin[k] = at

\* each article was built from the entry origin records for it
OriginFaithful ==
    /\ Len(origin) = Len(Accepted)
    /\ \A k \in 1..Len(origin) :
          /\ origin[k] \in Positions
          /\ Accepted[k]["url"] = LinkOf(EntryAt(origin[k]))
          /\ Accepted[k]["source"] = feeds[origin[k].feed]["name"]

\* C3: an entry whose timestamp (published_parsed, else updated_parsed) is
\* known and strictly before cutoff_time is never accepted; an entry whose
\* timestamp is unknown, or equal to or after the cutoff, is accepted whenever
\* its link is non-empty and unseen and it passes the keyword checks
C3_RecencyCheck ==
    /\ OriginFaithful
    /\ \A at \in Positions : TooOld(EntryAt(at)) => ~WasAccepted(at)
    /\ \A at \in Positions :
          (/\ ~TooOld(EntryAt(at))
           /\ LinkOf(EntryAt(at)) # ""
           /\ Unseen(at)
           /\ ~Excluded(EntryAt(at))
           /\ Included(EntryAt(at))) => WasAccepted(at)

\* an entry dated before the cutoff through updated_parsed (its
\* published_parsed does not convert) was dropped, and an entry dated exactly
\* at the cutoff was accepted
C3_Witness ==
    /\ pc = "returned"
    /\ \E at \in Positions :
          /\ TooOld(EntryAt(at))
          /\ "published_parsed" \in DOMAIN EntryAt(at)
          /\ ~Usable(EntryAt(at), "published_parsed")
    /\ \E k \in 1..Len(origin) :
          Timestamp(EntryAt(origin[k])) = cutoff_time

\* C4: an entry whose title-plus-summary text contains an exclude keyword,
\* ignoring case, is never accepted, whether or not it contains an include
\* keyword; with an empty exclude list the other checks alone decide
C4_ExcludeWins ==
    /\ OriginFaithful
    /\ \A at \in Positions : Excluded(EntryAt(at)) => ~WasAccepted(at)
    /\ Len(exclude_keywords) = 0 =>
          \A at \in Positions :
              (/\ ~TooOld(EntryAt(at))
               /\ LinkOf(EntryAt(at)) # ""
               /\ Unseen(at)
               /\ Included(EntryAt(at))) => WasAccepted(at)

\* a processed entry matches an include keyword and, in another case of
\* letters, an exclude keyword, and was dropped
C4_Witness ==
    /\ pc = "returned"
    /\ \E at \in Positions :
          /\ Included(EntryAt(at))
          /\ Excluded(EntryAt(at))
          /\ ~\E k \in 1..Len(exclude_keywords) :
                 Contains(CombinedText(EntryAt(at)), exclude_keywords[k])
          /\ LinkOf(EntryAt(at)) # ""
          /\ Unseen(at)

\* C5: with an empty include-keyword list no article is ever collected, and
\* the digest written holds the fixed no-articles line
C5_EmptyKeywordsMatchNothing ==
    Len(keywords) = 0 =>
        /\ Len(articles) = 0
        /\ pc = "written" => \E l \in 1..Len(output) : output[l] = NoArticlesLine

\* the digest was written under an empty keyword list although a processed
\* feed held an entry with a link that no exclude keyword matches
C5_Witness ==
    /\ pc = "written"
    /\ Len(keywords) = 0
    /\ \E at \in Positions : LinkOf(EntryAt(at)) # "" /\ ~Excluded(EntryAt(at))

----------------------------------------------------------------------------
(* C6, C8, C10 *)

ClosedCategories ==
    {"official", "domestic", "international", "tech", "reddit", "industry", "other"}

\* the rank the specification gives a category
Rank(category) ==
    CASE category = "official" -> 0
      [] category = "domestic" -> 1
      [] category = "international" -> 2
      [] category = "tech" -> 3
      [] category = "reddit" -> 4
      [] category = "industry" -> 5
      [] category = "other" -> 6
      [] OTHER -> 99

\* C6: the returned list is a permutation of the accepted articles, in
\* non-decreasing category rank, and articles of equal rank keep the order in
\* which they were accepted
C6_StableCategorySort ==
    pc # "collect" =>
        /\ \A i, j \in 1..Len(articles) :
              i < j => Rank(articles[i]["category"]) <= Rank(articles[j]["category"])
        /\ \E p \in [1..Len(articles) -> 1..Len(presort)] :
              /\ \A i, j \in 1..Len(articles) : i # j => p[i] # p[j]
              /\ Len(articles) = Len(presort)
              /\ \A i \in 1..Len(articles) : articles[i] = presort[p[i]]
              /\ \A i, j \in 1..Len(articles) :
                    (i < j /\ Rank(articles[i]["category"]) = Rank(articles[j]["category"]))
                        => p[i] < p[j]

\* the sort moved an article forward, and two articles of equal rank but
\* different categories were accepted
C6_Witness ==
    /\ pc = "returned"
    /\ articles # presort
    /\ \E i, j \in 1..Len(articles) :
          /\ i < j
          /\ articles[i]["category"] # articles[j]["category"]
          /\ Rank(articles[i]["category"]) = Rank(articles[j]["category"])

\* C8 as stated: every article's category is a member of the closed set
C8_ClosedCategorySet ==
    \A k \in 1..Len(articles) : articles[k]["category"] \in ClosedCategories

\* C8 as amended: every article carries the category string configured on its
\* source feed, verbatim, or "other" when the feed configures none; so it is a
\* member of the closed set exactly when the feed's category is missing or is
\* itself a member
C8_CategoryVerbatim ==
    /\ OriginFaithful
    /\ \A k \in 1..Len(origin) :
          LET feed_config == feeds[origin[k].feed]
          IN  /\ Accepted[k]["category"] =
                    (IF "category" \in DOMAIN feed_config
                     THEN feed_config["category"] ELSE "other")
              /\ Accepted[k]["category"] \in ClosedCategories <=>
                    \/ "category" \notin DOMAIN feed_config
                    \/ feed_config["category"] \in ClosedCategories
    /\ pc # "collect" =>
          \A k \in 1..Len(articles) : \E j \in 1..Len(presort) : articles[k] = presort[j]

\* the returned list holds an article of a feed without category and an
\* article of a feed with an unrecognized category
C8_Witness ==
    /\ pc = "returned"
    /\ \E k \in 1..Len(origin) : "category" \notin DOMAIN feeds[origin[k].feed]
    /\ \E k \in 1..Len(articles) : articles[k]["category"] = "foo"

SectionLines(label) ==
    {l \in 1..Len(output) : output[l].kind = "section" /\ output[l].label = label}

\* C10: in the returned list the articles of one category are contiguous, and
\* the digest holds the section header of each category at most once
C10_OneSectionPerCategory ==
    /\ pc # "collect" =>
          \A i, j, k \in 1..Len(articles) :
              (i < j /\ j < k /\ articles[i]["category"] = articles[k]["category"])
                  => articles[j]["category"] = articles[i]["category"]
    /\ pc = "written" =>
          \A k \in 1..Len(articles) :
              Cardinality(SectionLines(category_label(articles[k]["category"]))) <= 1

====
